---- MODULE Spec2Model ----
(***************************************************************************)
(* Incremental indicator-computation and caching pipeline of the           *)
(* biodiversity calculator: IndexGenerator.calculate_biodiversity_score    *)
(* (src/utils/indicators.py) over the store operations of                  *)
(* src/utils/duckdb_queries.py.                                            *)
(*                                                                         *)
(* Numbers are fixed-point: a raw zonal value or area is an integer count  *)
(* of thousandths, a value rounded to 2 decimals is an integer count of    *)
(* hundredths.  Every statement sent over the one shared store connection  *)
(* is one atomic step; the gradio handlers that call                       *)
(* calculate_biodiversity_score run as concurrent callers on the one       *)
(* IndexGenerator instance.                                                *)
(***************************************************************************)
EXTENDS Integers, Sequences, FiniteSets, TLC

\* ------------------------------------------------------------------ bounds
MinYear == 2017
MaxYear == 2018
MaxCalls == 2
MaxRaw == 20

Procs == {"c1", "c2"}
SeqProcs == {"c1"}
StartYears == MinYear..MaxYear
EndYears == MinYear..(MaxYear + 1)
Epochs == {0, 1}
RawValues == 0..MaxRaw
RawAreas == {2005, 1000000}

\* --------------------------------------------------------------- the state
VARIABLES
    tableExists,   \* the durable table `bioindicator` has been created
    bioindicator,  \* its rows, in insertion order
    temptable,     \* the rows of the staging table `_temptable`
    roi,           \* self.roi of the one IndexGenerator instance
    epoch,         \* the version of the remote backend's data
    pc,            \* each caller's position in calculate_biodiversity_score
    args,          \* each caller's (project_name, start_year, end_year)
    year,          \* each caller's loop variable of the existence checks
    years,         \* each caller's list of missing years
    dfs,           \* each caller's frames, one per evaluated year
    scores,        \* each caller's returned table
    failedAt,      \* the step at which each caller's call raised
    calls,         \* the number of calls begun
    atStart,       \* history: the durable rows when each caller's call began
    prev,          \* history: each caller's previous call
    chain,         \* history: the durable rows when a run of retries began
    recording,     \* whether the history variables are kept in this run
    ig             \* the IndexGenerator instance and what it was built from

vars == <<tableExists, bioindicator, temptable, roi, epoch, pc, args, year,
          years, dfs, scores, failedAt, calls, atStart, prev, chain, recording, ig>>

\* ------------------------------------------------------ static environment
\* The `project` table: name -> geometry (a region).  "ghost" has no row.
ProjectTable == [p |-> "Rp", q |-> "Rq"]
ProjectNames == DOMAIN ProjectTable \cup {"ghost"}

\* The index configurations of indices.yaml: type, selected band, name of
\* the band to extract, and the band the backend's reduction returns.
Catalog ==
    [ndwi |-> [name |-> "ndwi", gee_type |-> "algebraic", select |-> "",
               bandname |-> "nd", band |-> "nd"],
     treecover |-> [name |-> "treecover", gee_type |-> "image",
                    select |-> "treecover2000", bandname |-> "treecover2000",
                    band |-> "treecover2000"],
     raw |-> [name |-> "raw", gee_type |-> "image_collection", select |-> "b1",
              bandname |-> "", band |-> "b1"],
     bogus |-> [name |-> "bogus", gee_type |-> "bogus", select |-> "",
                bandname |-> "b1", band |-> "b1"]]

\* The states of the configuration file and the lists of index names an
\* IndexGenerator is built with.
Sources == {"ok", "malformed", "unreadable"}
NameLists == {<<>>, <<"treecover">>, <<"ndwi", "treecover">>,
              <<"ndwi", "bogus">>, <<"ndwi", "raw">>, <<"ndwi", "absent">>}
ConfiguredIndices == <<"ndwi", "treecover">>

\* _load_indices: the catalog, None after a logged YAML error, or the
\* exception of open().
LoadIndices(source) ==
    IF source = "unreadable" THEN "raised"
    ELSE IF source = "malformed" THEN "none"
    ELSE "catalog"

\* {k: all_indices[k] for k in indices if k in all_indices}
SubsetLenient(all_indices, names) ==
    [ok |-> TRUE,
     indices |-> IF all_indices = "none" THEN <<>>
                 ELSE SelectSeq(names, LAMBDA k : k \in DOMAIN Catalog)]

\* {k: all_indices[k] for k in indices}: the keys kept, or an exception.
Subset(all_indices, names) ==
    IF all_indices = "none"
    THEN [ok |-> names = <<>>, indices |-> <<>>]
    ELSE IF \A i \in DOMAIN names : names[i] \in DOMAIN Catalog
         THEN [ok |-> TRUE, indices |-> names]
         ELSE [ok |-> FALSE, indices |-> <<>>]

\* list(self.indices.keys())
Indices == ig.indices

GeeTypes == {"image", "image_collection", "feature_collection", "algebraic"}

\* generate_index with `case _` yielding a dataset like the other cases.
GenerateIndexAny(index_config) == TRUE

\* generate_index: whether a dataset is produced (otherwise it raises).
GenerateIndex(index_config) == index_config.gee_type \in GeeTypes

NoArgs == [project_name |-> "", start_year |-> MinYear, end_year |-> MinYear]
NoPrev == [ok |-> FALSE, args |-> NoArgs, scores |-> <<>>]

\* ---------------------------------------------------------------- rounding
\* numpy/pandas round(2): thousandths -> hundredths, ties to even.
RoundHalfEven(x) ==
    LET q == x \div 10
        r == x % 10
    IN  IF r < 5 THEN q
        ELSE IF r > 5 THEN q + 1
        ELSE IF q % 2 = 0 THEN q ELSE q + 1

\* DuckDB ROUND: n/d to the nearest integer, ties away from zero (d > 0).
RoundHalfAway(n, d) ==
    IF n >= 0 THEN (2 * n + d) \div (2 * d)
    ELSE 0 - ((2 * (0 - n) + d) \div (2 * d))

RECURSIVE SumSeq(_)
SumSeq(s) == IF s = <<>> THEN 0 ELSE Head(s) + SumSeq(Tail(s))

\* ---------------------------------------------------------- remote backend
\* reduceRegion(mean) of one index over a region for one year: the mean
\* of its band, in thousandths.  The backend's data may change between
\* evaluations (epoch).
ReduceRegion(region, index_key, y, ep) ==
    (IF region = "Rp" THEN 215 ELSE 640)
    + (IF index_key = "ndwi" THEN 0 ELSE 110)
    + 20 * (y - MinYear)
    + 35 * ep

\* zonal_mean_index: out[bandname] when bandname is configured, else the
\* mapping `out` of band to mean.
ZonalMeanIndex(region, index_key, y, ep) ==
    IF Catalog[index_key].bandname # ""
    THEN [scalar |-> TRUE, band |-> "",
          v |-> ReduceRegion(region, index_key, y, ep)]
    ELSE [scalar |-> FALSE, band |-> Catalog[index_key].band,
          v |-> ReduceRegion(region, index_key, y, ep)]

\* self.roi.area().getInfo(), in thousandths of a square metre.
RoiArea(region) == IF region = "Rp" THEN 2005 ELSE 3015

\* ------------------------------------------------------------ store queries
GetProjectGeometry(project_name) ==
    IF project_name \in DOMAIN ProjectTable
    THEN <<ProjectTable[project_name]>>
    ELSE <<>>

CheckIfProjectExistsForYear(table, project_name, y) ==
    Cardinality({i \in DOMAIN table :
                    table[i].year = y /\ table[i].project_name = project_name})

GetProjectScores(table, project_name, start_year, end_year) ==
    LET InRange(r) == /\ r.year >= start_year
                      /\ r.year <= end_year
                      /\ r.project_name = project_name
    IN  SelectSeq(table, InRange)

\* The groups of GROUP BY year, project_name, area in order of appearance.
RECURSIVE GroupKeys(_, _)
GroupKeys(df, seen) ==
    IF df = <<>> THEN <<>>
    ELSE LET k == [year |-> Head(df).year,
                   project_name |-> Head(df).project_name,
                   area |-> Head(df).area]
         IN  IF k \in seen THEN GroupKeys(Tail(df), seen)
             ELSE <<k>> \o GroupKeys(Tail(df), seen \cup {k})

\* The staging query without GROUP BY and AVG: a row per row of df.
WriteScoreToTemptableUngrouped(df) ==
    [i \in DOMAIN df |->
        [year |-> df[i].year,
         project_name |-> df[i].project_name,
         value |-> df[i].value,
         area |-> df[i].area,
         score |-> RoundHalfAway(df[i].value * df[i].area, 100)]]

\* CREATE OR REPLACE TABLE _temptable AS SELECT *, ROUND(value * area, 2) ...
WriteScoreToTemptable(df) ==
    LET keys == GroupKeys(df, {})
        Member(k) == LET In(r) == /\ r.year = k.year
                                  /\ r.project_name = k.project_name
                                  /\ r.area = k.area
                     IN  SelectSeq(df, In)
        Avg(k) == LET m == Member(k)
                  IN  RoundHalfAway(SumSeq([i \in DOMAIN m |-> m[i].value]), Len(m))
    IN  [i \in DOMAIN keys |->
            [year |-> keys[i].year,
             project_name |-> keys[i].project_name,
             value |-> Avg(keys[i]),
             area |-> keys[i].area,
             score |-> RoundHalfAway(Avg(keys[i]) * keys[i].area, 100)]]

HasKey(table, r) ==
    \E i \in DOMAIN table :
        table[i].year = r.year /\ table[i].project_name = r.project_name

\* INSERT of one staging row with no conflict clause and no constraint.
UpsertOneNoConflict(table, r) == Append(table, r)

\* One staging row: ON CONFLICT (year, project_name) DO UPDATE SET value.
UpsertOne(table, r) ==
    IF HasKey(table, r)
    THEN [i \in DOMAIN table |->
            IF table[i].year = r.year /\ table[i].project_name = r.project_name
            THEN [table[i] EXCEPT !.value = r.value]
            ELSE table[i]]
    ELSE Append(table, r)

\* INSERT INTO bioindicator FROM _temptable ON CONFLICT ... DO UPDATE.
RECURSIVE UpsertProjectRecord(_, _)
UpsertProjectRecord(table, staging) ==
    IF staging = <<>> THEN table
    ELSE UpsertProjectRecord(UpsertOne(table, Head(staging)), Tail(staging))

\* ----------------------------------------------------------- aggregation
\* One year's frame: a value per index and the area, all over `region`.
GenerateCompositeIndexDf(region, y, ep) ==
    [year |-> y,
     value |-> [i \in DOMAIN Indices |-> ZonalMeanIndex(region, Indices[i], y, ep)],
     area |-> RoiArea(region)]

\* pd.concat(dfs) with the year column overwritten by the first frame's.
CalculateYearlyIndexDfFirstYear(frames, project_name) ==
    [n \in 1..(Len(frames) * Len(Indices)) |->
        LET k == ((n - 1) \div Len(Indices)) + 1
            i == ((n - 1) % Len(Indices)) + 1
        IN  [metric |-> Indices[i],
             year |-> frames[1].year,
             project_name |-> project_name,
             value |-> RoundHalfEven(frames[k].value[i].v),
             area |-> RoundHalfEven(frames[k].area)]]

\* pd.concat(dfs) with project_name set, then .round(2): a row per metric.
RECURSIVE CalculateYearlyIndexDf(_, _)
CalculateYearlyIndexDf(frames, project_name) ==
    IF frames = <<>> THEN <<>>
    ELSE LET f == Head(frames)
         IN  [i \in DOMAIN Indices |->
                [metric |-> Indices[i],
                 year |-> f.year,
                 project_name |-> project_name,
                 value |-> RoundHalfEven(f.value[i].v),
                 area |-> RoundHalfEven(f.area)]]
             \o CalculateYearlyIndexDf(Tail(frames), project_name)

\* Whether every value of the frames is a number DuckDB can average.
Numeric(frames) ==
    \A k \in DOMAIN frames :
        \A i \in DOMAIN frames[k].value : frames[k].value[i].scalar

\* `if not row_exists` on an always-true test: every year is recomputed.
RowMissingAlways(table, project_name, y) == TRUE

\* `if not row_exists`: the year has no record and joins the missing years.
RowMissing(table, project_name, y) ==
    CheckIfProjectExistsForYear(table, project_name, y) = 0

Steps == {"check", "geometry", "evaluate", "stage", "create", "upsert", "read"}

InitStore ==
    /\ tableExists \in BOOLEAN
    /\ bioindicator = <<>>
    /\ temptable = <<>>
    /\ roi = "unset"
    /\ epoch = 0
    /\ pc = [c \in Procs |-> "idle"]
    /\ args = [c \in Procs |-> NoArgs]
    /\ year = [c \in Procs |-> MinYear]
    /\ years = [c \in Procs |-> <<>>]
    /\ dfs = [c \in Procs |-> <<>>]
    /\ scores = [c \in Procs |-> <<>>]
    /\ failedAt = [c \in Procs |-> "none"]
    /\ calls = 0
    /\ atStart = [c \in Procs |-> <<>>]
    /\ prev = [c \in Procs |-> NoPrev]
    /\ chain = [c \in Procs |-> <<>>]

\* The instance `indexgenerator` built at start-up from a well-formed
\* configuration.
Built ==
    [state |-> "ready", source |-> "ok", names |-> ConfiguredIndices,
     loaded |-> "catalog", indices |-> ConfiguredIndices]

NotBuilt ==
    [state |-> "new", source |-> "ok", names |-> <<>>, loaded |-> "catalog",
     indices |-> <<>>]

Init == InitStore /\ recording = FALSE /\ ig = Built

InitSeq == InitStore /\ recording = TRUE /\ ig = Built

\* IndexGenerator(indices=names) over a configuration file in state `source`.
Construct(source, names) ==
    /\ ig.state = "new"
    /\ LET all_indices == LoadIndices(source)
           sub == Subset(all_indices, names)
       IN  ig' = IF all_indices = "raised"
                 THEN [state |-> "failed", source |-> source, names |-> names,
                       loaded |-> all_indices, indices |-> <<>>]
                 ELSE [state |-> IF sub.ok THEN "ready" ELSE "failed",
                       source |-> source, names |-> names,
                       loaded |-> all_indices, indices |-> sub.indices]
    /\ UNCHANGED <<tableExists, bioindicator, temptable, roi, epoch, pc, args,
                   year, years, dfs, scores, failedAt, calls, atStart, prev,
                   chain, recording>>

\* ------------------------------------------------------------- the actions
\* A call of calculate_biodiversity_score(start_year, end_year, project_name).
Begin(self, p, s, e) ==
    /\ pc[self] = "idle"
    /\ ig.state = "ready"
    /\ calls < MaxCalls
    /\ calls' = calls + 1
    /\ args' = [args EXCEPT ![self] =
                  [project_name |-> p, start_year |-> s, end_year |-> e]]
    /\ year' = [year EXCEPT ![self] = s]
    /\ pc' = [pc EXCEPT ![self] = IF s < e THEN "check" ELSE "read"]
    /\ IF recording
       THEN /\ atStart' = [atStart EXCEPT ![self] = bioindicator]
            /\ chain' = [chain EXCEPT ![self] =
                           IF /\ ~prev[self].ok
                              /\ prev[self].args = args'[self]
                           THEN chain[self]
                           ELSE bioindicator]
       ELSE UNCHANGED <<atStart, chain>>
    /\ UNCHANGED <<tableExists, bioindicator, temptable, roi, epoch, years, dfs,
                   scores, failedAt, prev, recording, ig>>

\* The call returns its table or raises: its locals are gone.
Return(self) ==
    /\ pc[self] \in {"done", "error"}
    /\ pc' = [pc EXCEPT ![self] = "idle"]
    /\ args' = [args EXCEPT ![self] = NoArgs]
    /\ year' = [year EXCEPT ![self] = MinYear]
    /\ years' = [years EXCEPT ![self] = <<>>]
    /\ dfs' = [dfs EXCEPT ![self] = <<>>]
    /\ scores' = [scores EXCEPT ![self] = <<>>]
    /\ failedAt' = [failedAt EXCEPT ![self] = "none"]
    /\ IF recording
       THEN prev' = [prev EXCEPT ![self] =
                       [ok |-> pc[self] = "done", args |-> args[self],
                        scores |-> scores[self]]]
       ELSE UNCHANGED prev
    /\ UNCHANGED <<tableExists, bioindicator, temptable, roi, epoch, calls,
                   atStart, chain, recording, ig>>

Raise(self) ==
    /\ pc' = [pc EXCEPT ![self] = "error"]
    /\ failedAt' = [failedAt EXCEPT ![self] = pc[self]]

\* The existence checks followed by _calculate_yearly_index without the
\* test `if len(years) > 0`.
CheckUnguarded(self) ==
    /\ pc[self] = "check"
    /\ tableExists
    /\ years' = [years EXCEPT ![self] =
                   IF RowMissing(bioindicator, args[self].project_name, year[self])
                   THEN Append(years[self], year[self])
                   ELSE years[self]]
    /\ year' = [year EXCEPT ![self] = year[self] + 1]
    /\ pc' = [pc EXCEPT ![self] =
                IF year[self] + 1 < args[self].end_year THEN "check"
                ELSE "geometry"]
    /\ UNCHANGED <<tableExists, bioindicator, temptable, roi, epoch, args, dfs,
                   scores, failedAt, calls, atStart, prev, chain, recording, ig>>

\* One iteration of `for year in range(start_year, end_year)`.
Check(self) ==
    /\ pc[self] = "check"
    /\ IF ~tableExists
       THEN /\ Raise(self)
            /\ UNCHANGED <<year, years>>
       ELSE /\ years' = [years EXCEPT ![self] =
                           IF RowMissing(bioindicator, args[self].project_name,
                                         year[self])
                           THEN Append(years[self], year[self])
                           ELSE years[self]]
            /\ year' = [year EXCEPT ![self] = year[self] + 1]
            /\ pc' = [pc EXCEPT ![self] =
                        IF year[self] + 1 < args[self].end_year THEN "check"
                        ELSE IF Len(years'[self]) > 0 THEN "geometry"
                        ELSE "read"]
            /\ UNCHANGED failedAt
    /\ UNCHANGED <<tableExists, bioindicator, temptable, roi, epoch, args, dfs,
                   scores, calls, atStart, prev, chain, recording, ig>>

\* _calculate_yearly_index up to the assignment of self.roi.
Geometry(self) ==
    /\ pc[self] = "geometry"
    /\ LET project_geometry == GetProjectGeometry(args[self].project_name)
       IN  IF project_geometry = <<>>
           THEN /\ Raise(self)
                /\ UNCHANGED roi
           ELSE /\ roi' = project_geometry[1]
                /\ pc' = [pc EXCEPT ![self] = "evaluate"]
                /\ UNCHANGED failedAt
    /\ UNCHANGED <<tableExists, bioindicator, temptable, epoch, args, year,
                   years, dfs, scores, calls, atStart, prev, chain, recording, ig>>

\* The loop body persisting each year as soon as it is evaluated.
EvaluateEager(self) ==
    /\ pc[self] = "evaluate"
    /\ \A i \in DOMAIN Indices : GenerateIndex(Catalog[Indices[i]])
    /\ dfs' = [dfs EXCEPT ![self] =
                 Append(dfs[self],
                        GenerateCompositeIndexDf(roi, years[self][Len(dfs[self]) + 1],
                                                 epoch))]
    /\ bioindicator' = UpsertProjectRecord(bioindicator,
                           WriteScoreToTemptable(
                               CalculateYearlyIndexDf(dfs'[self],
                                                      args[self].project_name)))
    /\ pc' = [pc EXCEPT ![self] =
                IF Len(dfs'[self]) = Len(years[self]) THEN "stage" ELSE "evaluate"]
    /\ UNCHANGED <<tableExists, temptable, roi, epoch, args, year,
                   years, scores, failedAt, calls, atStart, prev, chain, recording, ig>>

\* One iteration of `for year in years`: generate_composite_index_df.
Evaluate(self) ==
    /\ pc[self] = "evaluate"
    /\ IF \E i \in DOMAIN Indices : ~GenerateIndex(Catalog[Indices[i]])
       THEN /\ Raise(self)
            /\ UNCHANGED dfs
       ELSE /\ dfs' = [dfs EXCEPT ![self] =
                         Append(dfs[self],
                                GenerateCompositeIndexDf(
                                    roi, years[self][Len(dfs[self]) + 1], epoch))]
            /\ pc' = [pc EXCEPT ![self] =
                        IF Len(dfs'[self]) = Len(years[self])
                        THEN "stage" ELSE "evaluate"]
            /\ UNCHANGED failedAt
    /\ UNCHANGED <<tableExists, bioindicator, temptable, roi, epoch, args, year,
                   years, scores, calls, atStart, prev, chain, recording, ig>>

\* INSERT INTO _temptable in place of CREATE OR REPLACE TABLE _temptable.
StageAppend(self) ==
    /\ pc[self] = "stage"
    /\ Numeric(dfs[self])
    /\ temptable' = temptable \o WriteScoreToTemptable(
                        CalculateYearlyIndexDf(dfs[self], args[self].project_name))
    /\ pc' = [pc EXCEPT ![self] = "create"]
    /\ UNCHANGED <<tableExists, bioindicator, roi, epoch, args, year, years, dfs,
                   scores, failedAt, calls, atStart, prev, chain, recording, ig>>

\* dq.write_score_to_temptable(df)
Stage(self) ==
    /\ pc[self] = "stage"
    /\ IF ~Numeric(dfs[self])
       THEN /\ Raise(self)
            /\ UNCHANGED temptable
       ELSE /\ temptable' = WriteScoreToTemptable(
                                CalculateYearlyIndexDf(dfs[self],
                                                       args[self].project_name))
            /\ pc' = [pc EXCEPT ![self] = "create"]
            /\ UNCHANGED failedAt
    /\ UNCHANGED <<tableExists, bioindicator, roi, epoch, args, year, years, dfs,
                   scores, calls, atStart, prev, chain, recording, ig>>

\* dq.get_or_create_bioindicator_table()
Create(self) ==
    /\ pc[self] = "create"
    /\ tableExists' = TRUE
    /\ pc' = [pc EXCEPT ![self] = "upsert"]
    /\ UNCHANGED <<bioindicator, temptable, roi, epoch, args, year, years, dfs,
                   scores, failedAt, calls, atStart, prev, chain, recording, ig>>

\* dq.upsert_project_record()
Upsert(self) ==
    /\ pc[self] = "upsert"
    /\ bioindicator' = UpsertProjectRecord(bioindicator, temptable)
    /\ pc' = [pc EXCEPT ![self] = "read"]
    /\ UNCHANGED <<tableExists, temptable, roi, epoch, args, year, years, dfs,
                   scores, failedAt, calls, atStart, prev, chain, recording, ig>>

\* scores = dq.get_project_scores(project_name, start_year, end_year)
Read(self) ==
    /\ pc[self] = "read"
    /\ IF ~tableExists
       THEN /\ Raise(self)
            /\ UNCHANGED scores
       ELSE /\ scores' = [scores EXCEPT ![self] =
                            GetProjectScores(bioindicator, args[self].project_name,
                                             args[self].start_year,
                                             args[self].end_year)]
            /\ pc' = [pc EXCEPT ![self] = "done"]
            /\ UNCHANGED failedAt
    /\ UNCHANGED <<tableExists, bioindicator, temptable, roi, epoch, args, year,
                   years, dfs, calls, atStart, prev, chain, recording, ig>>

\* Any store or backend call of the pipeline may raise; the statement it
\* was about to run has no effect and the exception ends the call.
Fail(self) ==
    /\ pc[self] \in Steps
    /\ Raise(self)
    /\ UNCHANGED <<tableExists, bioindicator, temptable, roi, epoch, args, year,
                   years, dfs, scores, calls, atStart, prev, chain, recording, ig>>

\* The remote backend's data changes.
BackendUpdate ==
    /\ epoch = 0
    /\ epoch' = 1
    /\ UNCHANGED <<tableExists, bioindicator, temptable, roi, pc, args, year,
                   years, dfs, scores, failedAt, calls, atStart, prev, chain, recording, ig>>

Next ==
    \/ BackendUpdate
    \/ \E self \in Procs :
        \/ \E p \in ProjectNames, s \in StartYears, e \in EndYears : Begin(self, p, s, e)
        \/ Check(self)
        \/ Geometry(self)
        \/ Evaluate(self)
        \/ Stage(self)
        \/ Create(self)
        \/ Upsert(self)
        \/ Read(self)
        \/ Fail(self)
        \/ Return(self)

Spec == Init /\ [][Next]_vars

\* One caller only: a sequence of non-concurrent calls.
NextSeq ==
    \/ BackendUpdate
    \/ \E self \in SeqProcs :
        \/ \E p \in ProjectNames, s \in StartYears, e \in EndYears : Begin(self, p, s, e)
        \/ Check(self)
        \/ Geometry(self)
        \/ Evaluate(self)
        \/ Stage(self)
        \/ Create(self)
        \/ Upsert(self)
        \/ Read(self)
        \/ Fail(self)
        \/ Return(self)

SpecSeq == InitSeq /\ [][NextSeq]_vars

\* The instance is built first, from any configuration file and any list
\* of index names; the calls then follow one another.
InitCfg == InitStore /\ recording = TRUE /\ ig = NotBuilt

NextCfg ==
    \/ \E source \in Sources, names \in NameLists : Construct(source, names)
    \/ NextSeq

SpecCfg == InitCfg /\ [][NextCfg]_vars

\* The orders in which the years of a set can be listed.
Perms(S) ==
    {f \in [1..Cardinality(S) -> S] : \A i, j \in DOMAIN f : f[i] = f[j] => i = j}

\* A call on an empty durable table, its locals otherwise as at entry.
InitCall(p, s, e, ys) ==
    /\ tableExists \in BOOLEAN
    /\ bioindicator = <<>>
    /\ temptable = <<>>
    /\ epoch \in Epochs
    /\ args = [c \in Procs |->
                 IF c \in SeqProcs
                 THEN [project_name |-> p, start_year |-> s, end_year |-> e]
                 ELSE NoArgs]
    /\ year = [c \in Procs |-> IF c \in SeqProcs THEN e ELSE MinYear]
    /\ years = [c \in Procs |-> IF c \in SeqProcs THEN ys ELSE <<>>]
    /\ scores = [c \in Procs |-> <<>>]
    /\ failedAt = [c \in Procs |-> "none"]
    /\ calls = MaxCalls
    /\ atStart = [c \in Procs |-> <<>>]
    /\ prev = [c \in Procs |-> NoPrev]
    /\ chain = [c \in Procs |-> <<>>]
    /\ recording = FALSE
    /\ ig = Built

\* _calculate_yearly_index(years, project_name) entered with the missing
\* years of a range listed in any order.
InitPerm ==
    \E p \in DOMAIN ProjectTable, s \in StartYears, e \in EndYears :
        /\ s < e
        /\ \E ys \in Perms(s..(e - 1)) : InitCall(p, s, e, ys)
        /\ roi = "unset"
        /\ pc = [c \in Procs |-> IF c \in SeqProcs THEN "geometry" ELSE "idle"]
        /\ dfs = [c \in Procs |-> <<>>]

NextPerm ==
    \E self \in SeqProcs :
        \/ Geometry(self)
        \/ Evaluate(self)
        \/ Stage(self)
        \/ Create(self)
        \/ Upsert(self)
        \/ Read(self)
        \/ Fail(self)
        \/ Return(self)

SpecPerm == InitPerm /\ [][NextPerm]_vars

\* The one missing year of a call has been evaluated: the backend returned
\* any values for the configured indices and any area for the region.
InitBatch ==
    \E p \in DOMAIN ProjectTable, y \in StartYears :
        /\ InitCall(p, y, y + 1, <<y>>)
        /\ roi = ProjectTable[p]
        /\ pc = [c \in Procs |-> IF c \in SeqProcs THEN "stage" ELSE "idle"]
        /\ \E v \in [DOMAIN ConfiguredIndices -> RawValues], a \in RawAreas :
              dfs = [c \in Procs |->
                       IF c \in SeqProcs
                       THEN <<[year |-> y,
                               value |-> [i \in DOMAIN v |->
                                            [scalar |-> TRUE, band |-> "",
                                             v |-> v[i]]],
                               area |-> a]>>
                       ELSE <<>>]

NextBatch ==
    \E self \in SeqProcs :
        \/ Stage(self)
        \/ Create(self)
        \/ Upsert(self)
        \/ Read(self)
        \/ Return(self)

SpecBatch == InitBatch /\ [][NextBatch]_vars

\* ------------------------------------------------------------ the claims
KeyRows(table, project_name, y) ==
    {i \in DOMAIN table :
        table[i].year = y /\ table[i].project_name = project_name}

SeqRange(s) == {s[i] : i \in DOMAIN s}

\* The record of (project_name, y) computed over the project's own region
\* from the backend's data of epoch ep.
ExpectedRecord(project_name, y, ep) ==
    WriteScoreToTemptable(
        CalculateYearlyIndexDf(
            <<GenerateCompositeIndexDf(ProjectTable[project_name], y, ep)>>,
            project_name))[1]

Known(self) == args[self].project_name \in DOMAIN ProjectTable

\* C1: in every reachable state of the durable table, under every
\* interleaving of calls, at most one row carries a given
\* (year, project_name) pair.
C1_UniqueYearProject ==
    \A i, j \in DOMAIN bioindicator :
        (/\ bioindicator[i].year = bioindicator[j].year
         /\ bioindicator[i].project_name = bioindicator[j].project_name)
        => i = j

\* C1 witness: two callers both found the same key missing and both have
\* upserted it.
C1_Witness ==
    \E a, b \in Procs :
        /\ a # b
        /\ pc[a] \in {"read", "done"}
        /\ pc[b] \in {"read", "done"}
        /\ args[a].project_name = args[b].project_name
        /\ SeqRange(years[a]) \cap SeqRange(years[b]) # {}
        /\ \E y \in SeqRange(years[a]) \cap SeqRange(years[b]) :
              KeyRows(bioindicator, args[a].project_name, y) # {}

\* C2 (as claimed): a call for an existing project with
\* start_year <= end_year that returns without error returns a record for
\* every year of start_year..end_year, end_year included.
C2_ReadBackCoversRange ==
    \A self \in Procs :
        (/\ pc[self] = "done"
         /\ Known(self)
         /\ args[self].start_year <= args[self].end_year)
        => \A y \in args[self].start_year..args[self].end_year :
              \E i \in DOMAIN scores[self] : scores[self][i].year = y

\* C3: in a non-concurrent call every year handed to the evaluator is a
\* year of the requested range that had no record for the project when the
\* existence checks ran.
C3_GapOnlyEvaluation ==
    \A self \in Procs :
        \A i \in DOMAIN dfs[self] :
            /\ dfs[self][i].year \in args[self].start_year..args[self].end_year
            /\ KeyRows(atStart[self], args[self].project_name, dfs[self][i].year) = {}

\* C3 witness: a year of the range was already stored and another year of
\* the range has been evaluated.
C3_Witness ==
    \E self \in Procs :
        /\ Len(dfs[self]) > 0
        /\ \E y \in args[self].start_year..args[self].end_year :
              KeyRows(atStart[self], args[self].project_name, y) # {}

\* C4: a call that directly follows a successful call with the same
\* arguments returns the same table, leaves the durable table as it found
\* it and evaluates nothing.
C4_Idempotence ==
    \A self \in Procs :
        (/\ pc[self] = "done"
         /\ prev[self].ok
         /\ prev[self].args = args[self])
        => /\ scores[self] = prev[self].scores
           /\ bioindicator = atStart[self]
           /\ dfs[self] = <<>>
           /\ years[self] = <<>>

\* C4 witness: the repeated call has returned a non-empty table.
C4_Witness ==
    \E self \in Procs :
        /\ pc[self] = "done"
        /\ prev[self].ok
        /\ prev[self].args = args[self]
        /\ Len(scores[self]) > 0

\* C5 (as claimed): an upsert whose staging row meets an existing key
\* leaves exactly one row for that key, equal to the staging row in value,
\* area and score.
C5_UpsertReplacesRow ==
    [][\A self \in Procs :
          Upsert(self) =>
            \A i \in DOMAIN temptable :
                HasKey(bioindicator, temptable[i]) =>
                    \A j \in DOMAIN bioindicator' :
                        (/\ bioindicator'[j].year = temptable[i].year
                         /\ bioindicator'[j].project_name = temptable[i].project_name)
                        => bioindicator'[j] = temptable[i]]_vars

\* C6: when the evaluation of a missing year fails, the call ends in an
\* error and the durable table is as it was before the call.
C6_BatchAtomicity ==
    \A self \in Procs :
        (pc[self] = "error" /\ failedAt[self] = "evaluate")
        => bioindicator = atStart[self]

\* C6 witness: one missing year was evaluated and the next one failed.
C6_Witness ==
    \E self \in Procs :
        /\ pc[self] = "error"
        /\ failedAt[self] = "evaluate"
        /\ Len(dfs[self]) > 0
        /\ Len(dfs[self]) < Len(years[self])

\* C7 (as claimed): a call for a project name with no geometry never
\* returns a table; it fails.
C7_UnknownProjectFails ==
    \A self \in Procs :
        (pc[self] # "idle" /\ ~Known(self)) => pc[self] # "done"

\* C8 (as claimed): two concurrent calls for different projects each
\* return, for every year they found missing, the record computed over
\* their own project's region.
C8_DifferentProjectsIndependent ==
    \A self \in Procs :
        (/\ calls = Cardinality(Procs)
         /\ \A o \in Procs : pc[o] # "idle"
         /\ \A o \in Procs \ {self} :
                args[o].project_name # args[self].project_name
         /\ pc[self] = "done")
        => \A y \in SeqRange(years[self]) :
              \E i \in DOMAIN scores[self] :
                  \E ep \in Epochs :
                      scores[self][i] = ExpectedRecord(args[self].project_name, y, ep)

\* C9 (as claimed): two concurrent calls for the same project that both
\* recompute a year, with unchanged backend data, end with exactly one
\* record per year either found missing, equal to the record of a single
\* call, and each returns the records of the years it found missing.
C9_SameProjectRaceHarmless ==
    (/\ calls = Cardinality(Procs)
     /\ epoch = 0
     /\ \A o \in Procs : pc[o] = "done"
     /\ \A a, b \in Procs :
           /\ args[a].project_name = args[b].project_name
           /\ SeqRange(years[a]) \cap SeqRange(years[b]) # {})
    => \A self \in Procs :
          \A y \in SeqRange(years[self]) :
              /\ Cardinality(KeyRows(bioindicator, args[self].project_name, y)) = 1
              /\ \A i \in KeyRows(bioindicator, args[self].project_name, y) :
                    bioindicator[i] = ExpectedRecord(args[self].project_name, y, 0)
              /\ \E i \in DOMAIN scores[self] :
                    scores[self][i] = ExpectedRecord(args[self].project_name, y, 0)

\* The years of range(start_year, end_year) with no record in `table`,
\* ascending.
RECURSIVE MissingFrom(_, _, _, _)
MissingFrom(table, project_name, y, end_year) ==
    IF y >= end_year THEN <<>>
    ELSE (IF KeyRows(table, project_name, y) = {} THEN <<y>> ELSE <<>>)
         \o MissingFrom(table, project_name, y + 1, end_year)

\* C10: when a call succeeds after failed attempts with the same arguments,
\* the durable table is the table a single failure-free call leaves: the
\* rows present before the first attempt, followed by one record per year
\* that was missing then, each with the values of one computation.
C10_RetrySafety ==
    \A self \in Procs :
        (/\ pc[self] = "done"
         /\ ~prev[self].ok
         /\ prev[self].args = args[self])
        => LET missing == MissingFrom(chain[self], args[self].project_name,
                                      args[self].start_year, args[self].end_year)
           IN  /\ Len(bioindicator) = Len(chain[self]) + Len(missing)
               /\ \A i \in DOMAIN chain[self] : bioindicator[i] = chain[self][i]
               /\ \A k \in DOMAIN missing :
                     \E ep \in Epochs :
                         bioindicator[Len(chain[self]) + k] =
                             ExpectedRecord(args[self].project_name, missing[k], ep)

\* C10 witness: the retried call succeeded and the chain of attempts has
\* persisted records.
C10_Witness ==
    \E self \in Procs :
        /\ pc[self] = "done"
        /\ ~prev[self].ok
        /\ prev[self].args = args[self]
        /\ Len(bioindicator) > Len(chain[self])

\* n/d to the nearest integer, ties to even (n >= 0, d > 0).
RoundDivHalfEven(n, d) ==
    LET q == n \div d
        r == n % d
    IN  IF 2 * r < d THEN q
        ELSE IF 2 * r > d THEN q + 1
        ELSE IF q % 2 = 0 THEN q ELSE q + 1

\* The arithmetic mean of a frame's raw values (thousandths) rounded to
\* 2 decimals (hundredths), under either rule for ties.
MeanRounded(f) ==
    LET total == SumSeq([i \in DOMAIN f.value |-> f.value[i].v])
        n == Len(f.value)
    IN  {RoundHalfAway(total, 10 * n), RoundDivHalfEven(total, 10 * n)}

\* C11 (as claimed): for every year computed, the persisted value is the
\* arithmetic mean of that year's indicator values rounded to 2 decimals,
\* and the persisted score is value times area rounded to 2 decimals.
C11_AggregationCorrect ==
    \A self \in SeqProcs :
        pc[self] \in {"read", "done"}
        => \A k \in DOMAIN dfs[self] :
              \E i \in DOMAIN bioindicator :
                  /\ bioindicator[i].year = dfs[self][k].year
                  /\ bioindicator[i].project_name = args[self].project_name
                  /\ bioindicator[i].value \in MeanRounded(dfs[self][k])
                  /\ bioindicator[i].score =
                        RoundHalfAway(bioindicator[i].value * bioindicator[i].area,
                                      100)

\* The instance was built with an index whose gee_type no case of
\* generate_index matches.
Unsupported ==
    /\ ig.state = "ready"
    /\ \E i \in DOMAIN Indices : Catalog[Indices[i]].gee_type \notin GeeTypes

\* C12: with an index of unsupported type no evaluation produces a value:
\* the call that reaches the evaluation ends in an error, only a call with
\* no missing year returns, and nothing is written to the staging table
\* or the durable table.
C12_UnsupportedTypeFails ==
    Unsupported
    => /\ bioindicator = <<>>
       /\ temptable = <<>>
       /\ \A self \in SeqProcs :
             /\ dfs[self] = <<>>
             /\ pc[self] \notin {"stage", "create", "upsert"}
             /\ pc[self] = "done" => years[self] = <<>>

\* C12 witness: a call with two missing years failed at its first
\* evaluation because of the unsupported index.
C12_Witness ==
    /\ Unsupported
    /\ \E self \in SeqProcs :
          /\ pc[self] = "error"
          /\ failedAt[self] = "evaluate"
          /\ Len(years[self]) = 2
          /\ tableExists

\* C13 (as claimed): over a malformed configuration file the load fails
\* and the failure reaches the caller: no catalog value is returned and no
\* IndexGenerator is constructed.
C13_LoadFailureExplicit ==
    (ig.state # "new" /\ ig.source = "malformed")
    => /\ ig.loaded = "raised"
       /\ ig.state = "failed"
       /\ \A self \in SeqProcs : pc[self] = "idle"

\* C14 (as claimed): the table a call returns lists its records by
\* ascending year, whatever the order of their insertion.
C14_SortedByYear ==
    \A self \in Procs :
        pc[self] = "done"
        => \A i, j \in DOMAIN scores[self] :
              i < j => scores[self][i].year < scores[self][j].year

\* C15: over a loaded catalog the instance holds exactly the requested
\* names when all of them are catalog entries; if any is absent the
\* construction fails, no instance exists and no call ever runs.
C15_SubsetExact ==
    (ig.state # "new" /\ ig.loaded = "catalog")
    => IF \A i \in DOMAIN ig.names : ig.names[i] \in DOMAIN Catalog
       THEN /\ ig.state = "ready"
            /\ ig.indices = ig.names
       ELSE /\ ig.state = "failed"
            /\ ig.indices = <<>>
            /\ calls = 0
            /\ \A self \in SeqProcs : pc[self] = "idle"

\* C15 witness: the construction with a list holding a catalog entry and
\* an absent name has failed.
C15_Witness ==
    /\ ig.state = "failed"
    /\ ig.loaded = "catalog"
    /\ \E i, j \in DOMAIN ig.names :
          /\ ig.names[i] \in DOMAIN Catalog
          /\ ig.names[j] \notin DOMAIN Catalog

\* C16 (as claimed): every frame evaluated for a call on project p holds
\* the area of p's region and the indicator values of p's region, also
\* when a call for another project runs concurrently.
C16_OwnRegion ==
    \A self \in Procs :
        \A k \in DOMAIN dfs[self] :
            LET region == ProjectTable[args[self].project_name]
                f == dfs[self][k]
            IN  /\ f.area = RoiArea(region)
                /\ \A i \in DOMAIN f.value :
                      \E ep \in Epochs :
                          f.value[i].v = ReduceRegion(region, Indices[i], f.year, ep)

\* C17 (as claimed): every record of the durable table has
\* score = round(value * area, 2), in every reachable state.
C17_ScoreConsistent ==
    \A i \in DOMAIN bioindicator :
        bioindicator[i].score =
            RoundHalfAway(bioindicator[i].value * bioindicator[i].area, 100)

\* The place of a step in the pipeline of one call.
Rank(step) ==
    CASE step = "idle" -> 0
      [] step = "check" -> 1
      [] step = "geometry" -> 2
      [] step = "evaluate" -> 3
      [] step = "stage" -> 4
      [] step = "create" -> 5
      [] step = "upsert" -> 6
      [] step = "read" -> 7
      [] OTHER -> 8

\* C18: within one call the steps follow the order existence checks,
\* evaluation of all missing years, staging write, upsert, read-back: the
\* staging table is written only by the staging step with every missing
\* year evaluated, the durable table only by the upsert after it, and
\* with missing years the read-back is entered from the upsert only.
C18_PipelineOrder ==
    [][\A self \in SeqProcs :
          /\ (pc[self] # "idle" /\ pc'[self] \notin {"idle", "error"})
             => Rank(pc'[self]) >= Rank(pc[self])
          /\ temptable' # temptable
             => /\ pc[self] = "stage"
                /\ pc'[self] = "create"
                /\ Len(years[self]) > 0
                /\ Len(dfs[self]) = Len(years[self])
                /\ \A k \in DOMAIN years[self] : dfs[self][k].year = years[self][k]
          /\ bioindicator' # bioindicator
             => /\ pc[self] = "upsert"
                /\ pc'[self] = "read"
                /\ Len(dfs[self]) = Len(years[self])
          /\ (pc'[self] = "read" /\ pc[self] # "read" /\ Len(years'[self]) > 0)
             => pc[self] = "upsert"
          /\ scores'[self] # scores[self]
             => \/ pc'[self] = "idle"
                \/ pc[self] = "read" /\ pc'[self] = "done"]_vars

\* C18 witness: a call with two missing years has evaluated, staged and
\* upserted them and has read them back.
C18_Witness ==
    \E self \in SeqProcs :
        /\ pc[self] = "done"
        /\ Len(years[self]) = 2
        /\ Len(dfs[self]) = 2
        /\ Len(temptable) = 2
        /\ Len(scores[self]) = 2

\* C19: whatever the order in which the missing years are listed, the
\* batch written to the staging table is the same set of records: one per
\* missing year, the record computed for that year alone.
C19_OrderIndependent ==
    \A self \in SeqProcs :
        pc[self] \in {"create", "upsert", "read", "done"}
        => /\ Len(temptable) = Len(years[self])
           /\ SeqRange(temptable) =
                 {ExpectedRecord(args[self].project_name, y, epoch) :
                     y \in SeqRange(years[self])}

\* C19 witness: two missing years listed in descending order have been
\* staged.
C19_Witness ==
    \E self \in SeqProcs :
        /\ pc[self] = "create"
        /\ Len(years[self]) = 2
        /\ years[self][1] > years[self][2]
        /\ Len(temptable) = 2

\* C20 (as claimed): the evaluation of an index whose configuration sets
\* a band selector yields the selected band's scalar, and the mapping of
\* the reduction is returned only for a configuration with no selector.
C20_SelectorYieldsScalar ==
    \A self \in SeqProcs :
        \A k \in DOMAIN dfs[self] :
            \A i \in DOMAIN dfs[self][k].value :
                LET index_config == Catalog[Indices[i]]
                IN  dfs[self][k].value[i].scalar
                    <=> (index_config.select # "" \/ index_config.bandname # "")

\* C21 (as claimed): on a store whose durable table has not been created,
\* a call for an existing project with a year in range gets past its
\* existence checks towards the creation of the table; the missing table
\* does not make the call fail.
C21_FreshStoreSucceeds ==
    [][\A self \in SeqProcs :
          (Check(self) /\ ~tableExists /\ Known(self))
          => pc'[self] \in {"check", "geometry"}]_vars

\* C22: in a sequence of non-concurrent calls no step deletes or modifies
\* a record of the durable table: the records keep their place and
\* content, and every record added carries a key that was absent.
C22_RecordsStable ==
    [][/\ Len(bioindicator') >= Len(bioindicator)
       /\ \A i \in DOMAIN bioindicator : bioindicator'[i] = bioindicator[i]
       /\ \A j \in DOMAIN bioindicator' \ DOMAIN bioindicator :
             ~HasKey(bioindicator, bioindicator'[j])]_vars

\* C22 witness: a call has added records to a durable table that already
\* held a record of its range.
C22_Witness ==
    \E self \in SeqProcs :
        /\ pc[self] \in {"read", "done"}
        /\ Len(years[self]) > 0
        /\ Len(bioindicator) > Len(atStart[self])
        /\ \E i \in DOMAIN atStart[self] :
              /\ atStart[self][i].project_name = args[self].project_name
              /\ atStart[self][i].year \in
                    args[self].start_year..(args[self].end_year - 1)

\* C23: while a call has found no missing year it looks up no geometry,
\* evaluates nothing and leaves the staging table and the durable table
\* as they are; from its existence checks it goes to the read-back, which
\* returns the stored records of the project with
\* start_year <= year <= end_year.
C23_NoMissingYearReadsOnly ==
    [][\A self \in SeqProcs :
          (years'[self] = <<>> /\ pc'[self] # "idle")
          => /\ roi' = roi
             /\ temptable' = temptable
             /\ bioindicator' = bioindicator
             /\ dfs'[self] = <<>>
             /\ pc'[self] \in {"check", "read", "done", "error"}
             /\ (pc'[self] = "done" /\ pc[self] # "done")
                => LET Asked(r) == /\ r.project_name = args[self].project_name
                                   /\ args[self].start_year <= r.year
                                   /\ r.year <= args[self].end_year
                   IN  scores'[self] = SelectSeq(bioindicator, Asked)]_vars

\* C23 witness: a call over a range whose years were all stored has
\* returned their records.
C23_Witness ==
    \E self \in SeqProcs :
        /\ pc[self] = "done"
        /\ years[self] = <<>>
        /\ args[self].start_year < args[self].end_year
        /\ Len(scores[self]) > 0
        /\ Len(temptable) > 0

====
